---- MODULE Spec2Model ----
(***************************************************************************)
(* Model of the Sigil redis plugin: the schema executor (set / get /       *)
(* delete / with / randomKey.set), its readiness gate, the positional      *)
(* codec (serialize / sealJsonParser) and the redis client it talks to.    *)
(***************************************************************************)
EXTENDS Integers, Sequences, FiniteSets, TLC

(***************************************************************************)
(* JavaScript values.  Every value is a record of the same four fields so  *)
(* that any two values can be compared: k is the kind, s the payload of a  *)
(* scalar, a the elements of an array or the property values of an object, *)
(* f the property names of an object (in insertion order).                 *)
(***************************************************************************)
Mk(k, s, a, f) == [k |-> k, s |-> s, a |-> a, f |-> f]

Undefined == Mk("undefined", "", <<>>, <<>>)
Null == Mk("null", "", <<>>, <<>>)
Str(x) == Mk("string", x, <<>>, <<>>)
Bool(x) == Mk("boolean", x, <<>>, <<>>)
Arr(elems) == Mk("array", "", elems, <<>>)
Obj(names, vals) == Mk("object", "", vals, names)

\* The outcome of an evaluation that threw; s names the error.
Thrown(err) == Mk("thrown", err, <<>>, <<>>)
IsThrown(v) == v.k = "thrown"

\* typeof v === "object": true of null, arrays and plain objects.
TypeofObject(v) == v.k \in {"null", "array", "object"}

\* JavaScript truthiness of the values that occur here.
Truthy(v) ==
  /\ v.k \notin {"undefined", "null", "thrown"}
  /\ ~(v.k = "string" /\ v.s = "")
  /\ ~(v.k = "boolean" /\ v.s = "false")

\* payload[key] for a string key that is no array index.
GetProp(v, key) ==
  IF v.k = "object" /\ \E i \in 1..Len(v.f) : v.f[i] = key
  THEN v.a[CHOOSE i \in 1..Len(v.f) : v.f[i] = key]
  ELSE Undefined

\* arr[idx] with a zero-based idx: undefined past the end or on a non-array.
GetIndex(v, idx) ==
  IF v.k = "array" /\ idx + 1 <= Len(v.a) THEN v.a[idx + 1] ELSE Undefined

(***************************************************************************)
(* Seal schemas, in the same record form: k is the variant, f the field    *)
(* names of an object schema (declaration order), a the child schemas.     *)
(***************************************************************************)
SealString == Mk("string", "", <<>>, <<>>)
SealBoolean == Mk("boolean", "", <<>>, <<>>)
SealNullable(inner) == Mk("nullable", "", <<inner>>, <<>>)
SealArray(inner) == Mk("array", "", <<inner>>, <<>>)
SealObject(names, schemas) == Mk("object", "", schemas, names)

\* schema instanceof ObjectSchema
IsObjectSchema(schema) == schema.k = "object"

\* The plain map an ObjectSchema keeps in __$shape: field name -> schema.
ShapeMap(names, schemas) == Mk("shape", "", schemas, names)

\* x.__$shape: the field map of an ObjectSchema; on a plain field map it is
\* the field of that name, which is undefined unless a field is so named.
ShapeOf(x) ==
  IF x.k = "object" THEN ShapeMap(x.f, x.a)
  ELSE IF x.k = "shape" /\ \E i \in 1..Len(x.f) : x.f[i] = "__$shape"
  THEN x.a[CHOOSE i \in 1..Len(x.f) : x.f[i] = "__$shape"]
  ELSE Undefined

\* Object.keys(seal.exportMetadataOf(template).shape || {})
SchemaShapeKeys(template) == IF template.k = "object" THEN template.f ELSE <<>>

\* seal.validate(schema, value).length = 0
RECURSIVE Valid(_, _)
Valid(schema, v) ==
  CASE schema.k = "string" -> v.k = "string"
    [] schema.k = "boolean" -> v.k = "boolean"
    [] schema.k = "nullable" -> v.k \in {"null", "undefined"} \/ Valid(schema.a[1], v)
    [] schema.k = "array" ->
         v.k = "array" /\ \A i \in 1..Len(v.a) : Valid(schema.a[1], v.a[i])
    [] schema.k = "object" ->
         v.k = "object" /\ \A i \in 1..Len(schema.f) :
                              Valid(schema.a[i], GetProp(v, schema.f[i]))
    [] OTHER -> FALSE

(***************************************************************************)
(* Wire text.  A JSON document is kept as its syntax tree, with kinds of   *)
(* its own (jnull, jstring, jboolean, jarray, jobject), so that writing a  *)
(* value out and reading it back are two conversions.                      *)
(***************************************************************************)
JNull == Mk("jnull", "", <<>>, <<>>)

\* The text of length 0: no JSON text, and falsy as a JavaScript string.
EmptyText == Mk("jempty", "", <<>>, <<>>)

\* The indices of the properties JSON.stringify keeps: undefined ones go.
RECURSIVE KeptProps(_, _)
KeptProps(v, i) ==
  IF i > Len(v.a) THEN <<>>
  ELSE IF v.a[i].k = "undefined" THEN KeptProps(v, i + 1)
  ELSE <<i>> \o KeptProps(v, i + 1)

\* jsonStringify(value, { throw: true }) of a value that is not undefined:
\* an undefined array element is written as null, an undefined property is
\* left out.
RECURSIVE JsonStringify(_)
JsonStringify(v) ==
  CASE v.k = "string" -> Mk("jstring", v.s, <<>>, <<>>)
    [] v.k = "boolean" -> Mk("jboolean", v.s, <<>>, <<>>)
    [] v.k \in {"null", "undefined"} -> JNull
    [] v.k = "array" ->
         Mk("jarray", "", [i \in 1..Len(v.a) |-> JsonStringify(v.a[i])], <<>>)
    [] v.k = "object" ->
         LET kept == KeptProps(v, 1) IN
         Mk("jobject", "",
            [i \in 1..Len(kept) |-> JsonStringify(v.a[kept[i]])],
            [i \in 1..Len(kept) |-> v.f[kept[i]]])
    [] OTHER -> v

\* JSON.parse(text)
RECURSIVE JsonParse(_)
JsonParse(t) ==
  CASE t.k = "jstring" -> Str(t.s)
    [] t.k = "jboolean" -> Bool(t.s)
    [] t.k = "jnull" -> Null
    [] t.k = "jarray" -> Arr([i \in 1..Len(t.a) |-> JsonParse(t.a[i])])
    [] t.k = "jobject" -> Obj(t.f, [i \in 1..Len(t.a) |-> JsonParse(t.a[i])])
    [] OTHER -> Thrown("SyntaxError")

(***************************************************************************)
(* The codec.                                                              *)
(***************************************************************************)
\* serialize(payload): every recursive call reads the field names of the
\* executor's own template again, whatever the nesting depth.
RECURSIVE Serialize(_, _)
Serialize(template, payload) ==
  IF ~TypeofObject(payload) THEN payload
  ELSE IF payload.k = "null" THEN Thrown("TypeError")
  ELSE LET schemaShapeKeys == SchemaShapeKeys(template)
           Elem(v) == IF Truthy(v) /\ TypeofObject(v) THEN Serialize(template, v) ELSE v
       IN IF Len(schemaShapeKeys) > 0
          THEN Arr([i \in 1..Len(schemaShapeKeys) |->
                      Elem(GetProp(payload, schemaShapeKeys[i]))])
          ELSE Arr([i \in 1..Len(payload.a) |-> Elem(payload.a[i])])

\* The schema a nested decoding step is handed for the field propSchema.
NestedSchemaArg(propSchema) == ShapeOf(propSchema)

\* fromCompressedArray(arr, schema): Object.keys(shape) throws a TypeError
\* when schema has no __$shape.
RECURSIVE FromCompressedArray(_, _)
FromCompressedArray(arr, schema) ==
  LET shape == ShapeOf(schema) IN
  IF shape.k # "shape" THEN Thrown("TypeError")
  ELSE LET Field(idx) ==
             LET propSchema == shape.a[idx]
                 raw == GetIndex(arr, idx - 1)
             IN IF IsObjectSchema(propSchema)
                THEN FromCompressedArray(raw, NestedSchemaArg(propSchema))
                ELSE raw
           vals == [idx \in 1..Len(shape.f) |-> Field(idx)]
       IN IF \E idx \in 1..Len(vals) : IsThrown(vals[idx])
          THEN vals[CHOOSE idx \in 1..Len(vals) :
                      /\ IsThrown(vals[idx])
                      /\ \A j \in 1..(idx - 1) : ~IsThrown(vals[j])]
          ELSE Obj(shape.f, vals)

\* sealJsonParser(jsonArrayString, schema): null stands for a validation
\* failure, a thrown value for an exception.  SealJsonParserNoArrayTest is
\* the function without if (!Array.isArray(parsed)) throw.
SealJsonParserNoArrayTest(jsonArrayString, schema) ==
  LET parsed == JsonParse(jsonArrayString) IN
  IF IsThrown(parsed) THEN parsed
  ELSE IF ~IsObjectSchema(schema)
       THEN IF ~Valid(schema, parsed) THEN Null ELSE parsed
       ELSE LET obj == FromCompressedArray(parsed, schema) IN
            IF IsThrown(obj) THEN obj
            ELSE IF ~Valid(schema, obj) THEN Null ELSE obj
SealJsonParser(jsonArrayString, schema) ==
  LET parsed == JsonParse(jsonArrayString) IN
  IF IsThrown(parsed) THEN parsed
  ELSE IF parsed.k # "array" THEN Thrown("InputMustBeJsonArray")
  ELSE IF ~IsObjectSchema(schema)
       THEN IF ~Valid(schema, parsed) THEN Null ELSE parsed
       ELSE LET obj == FromCompressedArray(parsed, schema) IN
            IF IsThrown(obj) THEN obj
            ELSE IF ~Valid(schema, obj) THEN Null ELSE obj

(***************************************************************************)
(* Templates and the values callers store under them.                      *)
(***************************************************************************)
TString == SealString
TNullable == SealNullable(SealString)
TArray == SealArray(SealNullable(SealString))
TFlat == SealObject(<<"userId", "userName">>, <<SealString, SealNullable(SealString)>>)
TNested == SealObject(<<"profile", "active">>, <<TFlat, SealBoolean>>)
TArrayField == SealObject(<<"id", "tags">>, <<SealString, SealArray(SealString)>>)

Templates == {TString, TNullable, TArray, TFlat, TNested, TArrayField}

\* Values conforming to each template.
ValuesOf(template) ==
  CASE template = TString -> {Str("a")}
    [] template = TNullable -> {Null, Str("a")}
    [] template = TArray -> {Arr(<<>>), Arr(<<Str("a"), Null>>)}
    [] template = TFlat ->
         {Obj(<<"userId", "userName">>, <<Str("42"), Null>>),
          Obj(<<"userId", "userName">>, <<Str("1"), Str("bob")>>)}
    [] template = TNested ->
         {Obj(<<"profile", "active">>,
              <<Obj(<<"userId", "userName">>, <<Str("1"), Str("bob")>>), Bool("true")>>)}
    [] template = TArrayField ->
         {Obj(<<"id", "tags">>, <<Str("1"), Arr(<<Str("a")>>)>>)}
    [] OTHER -> {}

(***************************************************************************)
(* Bounds of the model and constants of the program.                       *)
(***************************************************************************)
\* Operations the callers issue in one run.
MaxOps == 2
\* The clock runs from 0 to MaxTime seconds.
MaxTime == 3
\* The ttl, in seconds, of the stores that are configured with one.
TtlSeconds == 2
\* While the connection is not ready, a further operation is called only
\* while every running readiness poll has made at most this many attempts.
MaxCallSkew == 1
\* The attempt bound of the readiness poll.
MaxAttempts == 300

Keys == {"k1"}
Namespace == "NS"

\* fullKey(key)
FullKey(namespace, key) == namespace \o "+" \o key

\* A second store on the same server, of another namespace, and the keys
\* its records are stored at.
OtherNamespace == "NS2"
OtherKeys == {FullKey(OtherNamespace, k) : k \in Keys}

\* The strings a caller may pass as a key: keys are opaque.
LogicalKeys == Keys \cup OtherKeys

\* The keys the store is ever addressed with.
RedisKeys == {FullKey(Namespace, k) : k \in Keys} \cup LogicalKeys

Num(n) == Mk("number", IF n = 0 THEN "0" ELSE "1", <<>>, <<>>)

\* A key of the store: absent, or a text with an expiry time (0: none).
\* wt (the time of the write) and orig (the value that was encoded) are
\* history fields: no command reads them.
NoEntry == [p |-> FALSE, text |-> JNull, exp |-> 0, wt |-> 0, orig |-> Undefined]
Entry(text, exp, wt, orig) == [p |-> TRUE, text |-> text, exp |-> exp, wt |-> wt, orig |-> orig]

\* What the client hands back for GET: the text, or null.
NoReply == [p |-> FALSE, text |-> JNull]
Reply(text) == [p |-> TRUE, text |-> text]

\* History of a logical key: a readOnce read's deletion (consumed) or a
\* caller's delete (deleted) has completed and no set was called since;
\* written is the value of a set that has resolved with no operation on the
\* key called since (undefined when there is none).
NoHist == [consumed |-> FALSE, deleted |-> FALSE, written |-> Undefined]

VARIABLES
  template,  \* the executor's template
  options,   \* the executor's options: hasTtl, ttl, readOnce, namespace
  isReady,   \* client.isReady
  alive,     \* the process has not died of an uncaught exception
  db,        \* the store: RedisKeys -> entry
  now,       \* the store's clock, in seconds
  queue,     \* the client's command queue, in the order the commands were issued
  ops,       \* the calls of executor methods, in call order
  timers,    \* the running setInterval timers (op ids), in firing order
  hist       \* history: LogicalKeys -> what has been removed and not set again

vars == <<template, options, isReady, alive, db, now, queue, ops, timers, hist>>

OpIds == DOMAIN ops
Callers == {o \in OpIds : ~ops[o].child}

NewOp(kind, key, value, force, child) ==
  [kind |-> kind, key |-> key, value |-> value, force |-> force, child |-> child,
   pc |-> "new", attempt |-> 0, waited |-> FALSE, due |-> 0,
   raw |-> NoReply, at |-> 0, ent |-> NoEntry, seen |-> NoHist,
   payload |-> Undefined, result |-> Undefined, spawned |-> FALSE, cbCalls |-> 0]

(***************************************************************************)
(* The readiness gate.                                                     *)
(***************************************************************************)
\* if (attempt > 300); TimedOutOneEarly is the comparison written with >=.
TimedOutOneEarly(attempt) == attempt >= MaxAttempts
TimedOut(attempt) == attempt > MaxAttempts

\* if (!this.client().isReady) return, inside the interval callback;
\* PollIgnoresReady is the callback without that line.
PollIgnoresReady(ready) == TRUE
PollSeesReady(ready) == ready

\* waitInitialization() up to its return: an operation that finds the client
\* ready goes on (after the await), any other starts its interval timer.
GateEntry(op, ready) ==
  IF ready THEN [op EXCEPT !.pc = "ready"]
  ELSE [op EXCEPT !.pc = "poll", !.attempt = 0]

\* One run of the interval callback.  Past the bound the callback clears the
\* timer and throws: nothing settles the promise, the operation is stuck.
PollStep(op, ready) ==
  LET attempt == op.attempt + 1 IN
  IF TimedOut(attempt) THEN [op EXCEPT !.attempt = attempt, !.pc = "stuck"]
  ELSE IF ~PollSeesReady(ready) THEN [op EXCEPT !.attempt = attempt]
  ELSE [op EXCEPT !.attempt = 0, !.pc = "ready", !.waited = TRUE]

(***************************************************************************)
(* The executor's decisions.                                               *)
(***************************************************************************)
\* set: setEx with the ttl when options.ttl is a number, else set;
\* SetCommandNoExpiry is set without the setEx branch.
SetCommandNoExpiry(opts, key, text, orig) ==
  [cmd |-> "SET", key |-> FullKey(opts.namespace, key), text |-> text,
   ttl |-> 0, op |-> 0, orig |-> orig]
SetCommand(opts, key, text, orig) ==
  IF opts.hasTtl
  THEN [cmd |-> "SETEX", key |-> FullKey(opts.namespace, key), text |-> text,
        ttl |-> opts.ttl, op |-> 0, orig |-> orig]
  ELSE [cmd |-> "SET", key |-> FullKey(opts.namespace, key), text |-> text,
        ttl |-> 0, op |-> 0, orig |-> orig]

\* get: this.client().get(this.fullKey(key))
GetCommand(opts, key, o) ==
  [cmd |-> "GET", key |-> FullKey(opts.namespace, key), text |-> JNull,
   ttl |-> 0, op |-> o, orig |-> Undefined]

\* delete: this.client().del(key), the key as the caller gave it.
DeleteCommand(opts, key, o) ==
  [cmd |-> "DEL", key |-> key, text |-> JNull, ttl |-> 0, op |-> o, orig |-> Undefined]

\* get: if (!rawValue), true of the null the client hands back for a missing
\* key and of an empty text.
RawMissing(raw) == ~raw.p \/ raw.text = EmptyText

\* get: if (this.options.readOnce) this.delete(key), which is reached only
\* past the return for a missing record; GetCallsDeleteFirst is that line
\* placed before the test for a missing record.
GetCallsDeleteFirst(opts, raw) == opts.readOnce
GetCallsDelete(opts, raw) == ~RawMissing(raw) /\ opts.readOnce

\* get: what it hands back for the reply raw.
GetOutcome(tmpl, raw, force) ==
  IF RawMissing(raw)
  THEN IF force THEN Thrown("KeyNotFound") ELSE Null
  ELSE SealJsonParser(raw.text, tmpl)

\* with: if (payload) return callback(payload); return null.
\* WithCallsCallbackAlways is with without the test.
WithCallsCallbackAlways(payload) == ~IsThrown(payload)
WithCallsCallback(payload) == ~IsThrown(payload) /\ Truthy(payload)
CallbackResult == Str("callback result")

\* The callbacks a caller hands to with: one that returns a result made of
\* its argument, one that throws.
CallbackReturns == Mk("function", "returns", <<>>, <<>>)
CallbackThrows == Mk("function", "throws", <<>>, <<>>)
Callbacks == {CallbackReturns, CallbackThrows}

\* callback(payload)
CallCallback(callback, payload) ==
  IF callback = CallbackThrows THEN Thrown("CallbackError")
  ELSE Arr(<<CallbackResult, payload>>)

(***************************************************************************)
(* The store.                                                              *)
(***************************************************************************)
\* A key holds a record at time t.
Live(e, t) == e.p /\ (e.exp = 0 \/ t < e.exp)

\* The store after the command c at time t.  RedisApplyGetDel is a store
\* whose GET removes the key it reads (GETDEL): reading and removing in one
\* command.
RedisApplyGetDel(store, c, t) ==
  CASE c.cmd = "SET" -> [store EXCEPT ![c.key] = Entry(c.text, 0, t, c.orig)]
    [] c.cmd = "SETEX" -> [store EXCEPT ![c.key] = Entry(c.text, t + c.ttl, t, c.orig)]
    [] c.cmd \in {"DEL", "GET"} -> [store EXCEPT ![c.key] = NoEntry]
    [] OTHER -> store
RedisApply(store, c, t) ==
  CASE c.cmd = "SET" -> [store EXCEPT ![c.key] = Entry(c.text, 0, t, c.orig)]
    [] c.cmd = "SETEX" -> [store EXCEPT ![c.key] = Entry(c.text, t + c.ttl, t, c.orig)]
    [] c.cmd = "DEL" -> [store EXCEPT ![c.key] = NoEntry]
    [] OTHER -> store

RedisGet(store, key, t) == IF Live(store[key], t) THEN Reply(store[key].text) ELSE NoReply
RedisDelCount(store, key, t) == IF Live(store[key], t) THEN 1 ELSE 0

(***************************************************************************)
(* Initial states.                                                         *)
(***************************************************************************)
OptionsOf(hasTtl, readOnce) ==
  [hasTtl |-> hasTtl, ttl |-> IF hasTtl THEN TtlSeconds ELSE 0,
   readOnce |-> readOnce, namespace |-> Namespace]

EmptyStore == [k \in RedisKeys |-> NoEntry]

\* The stores an earlier set(key, value) of this executor, executed at time
\* 0, leaves behind.
StoresAfterSet(tmpl, opts) ==
  {RedisApply(EmptyStore,
              SetCommand(opts, key, JsonStringify(Serialize(tmpl, value)), value), 0) :
     key \in Keys, value \in {v \in ValuesOf(tmpl) : ~IsThrown(Serialize(tmpl, v))}}

InitCommon ==
  /\ alive = TRUE
  /\ now = 0
  /\ queue = <<>>
  /\ ops = <<>>
  /\ timers = <<>>
  /\ hist = [k \in LogicalKeys |-> NoHist]

\* A store of any template and any options, on a client that has connected;
\* the key may hold a record from an earlier set.
Init ==
  /\ template \in Templates
  /\ options \in {OptionsOf(t, r) : t \in BOOLEAN, r \in BOOLEAN}
  /\ isReady = TRUE
  /\ db \in {EmptyStore} \cup StoresAfterSet(template, options)
  /\ InitCommon

\* A store on a server where the store of the other namespace has written
\* a record.
InitIsolation ==
  /\ template = TFlat
  /\ options \in {OptionsOf(FALSE, r) : r \in BOOLEAN}
  /\ isReady = TRUE
  /\ db \in {RedisApply(store,
                        SetCommand([options EXCEPT !.namespace = OtherNamespace], key,
                                   JsonStringify(Serialize(template, value)), value), 0) :
                store \in {EmptyStore} \cup StoresAfterSet(template, options),
                key \in Keys, value \in ValuesOf(template)}
  /\ InitCommon

\* Texts that another writer on the same server may leave at the store's
\* full key: "", "a" as a JSON string, an object, null.
ForeignTexts ==
  {EmptyText, JsonStringify(Str("a")), JsonStringify(Obj(<<"userId">>, <<Str("1")>>)),
   JNull}

\* A store whose key holds a record this executor did not encode, or one it
\* did.
InitForeign ==
  /\ template \in Templates
  /\ options \in {OptionsOf(FALSE, r) : r \in BOOLEAN}
  /\ isReady = TRUE
  /\ db \in StoresAfterSet(template, options) \cup
            {[EmptyStore EXCEPT ![FullKey(options.namespace, key)] =
                Entry(text, 0, 0, Undefined)] : key \in Keys, text \in ForeignTexts}
  /\ InitCommon

\* A store defined before the client has connected.
InitGate ==
  /\ template = TFlat
  /\ options \in {OptionsOf(FALSE, r) : r \in BOOLEAN}
  /\ isReady = FALSE
  /\ db = EmptyStore
  /\ InitCommon

(***************************************************************************)
(* Calls.                                                                  *)
(***************************************************************************)
SetKinds == {"set", "randomKeySet"}
GetKinds == {"get", "with"}

\* A set on the logical key has been called and its write has not yet
\* reached the store.
SetInFlight(key) ==
  \/ \E o \in OpIds : /\ ops[o].kind \in SetKinds /\ ops[o].key = key
                      /\ ops[o].pc \in {"poll", "ready"}
  \/ \E i \in 1..Len(queue) : /\ queue[i].cmd \in {"SET", "SETEX"}
                              /\ queue[i].key = FullKey(options.namespace, key)

\* The operations whose continuation after an await is due: the promise they
\* await has been settled.  Continuations are microtasks: they run before the
\* event loop takes up anything else (a timer, a reply of the store, the
\* event of the connection, the next caller).
Pending == {o \in OpIds : ops[o].pc \in {"ready", "gotReply"}}

\* A caller invokes a method, in a turn of the event loop of its own: the
\* method runs up to its first await, which is the one on
\* waitInitialization().
Call(kind, key, value, force) ==
  /\ alive
  /\ Pending = {}
  /\ Cardinality(Callers) < MaxOps
  /\ ~isReady => \A o \in OpIds : ops[o].pc = "poll" => ops[o].attempt <= MaxCallSkew
  /\ LET id == Len(ops) + 1
         fresh == [NewOp(kind, key, value, force, FALSE) EXCEPT
                     !.seen = IF kind \in GetKinds THEN hist[key] ELSE NoHist]
         op == GateEntry(fresh, isReady)
     IN /\ ops' = Append(ops, op)
        /\ timers' = IF op.pc = "poll" THEN Append(timers, id) ELSE timers
  /\ hist' = [hist EXCEPT ![key] = IF kind \in SetKinds THEN NoHist
                                    ELSE [@ EXCEPT !.written = Undefined]]
  /\ UNCHANGED <<template, options, isReady, alive, db, now, queue>>

CallSet == \E key \in Keys, value \in ValuesOf(template) : Call("set", key, value, FALSE)

\* randomKey.set(value): the key is drawn at random, then set(key, value).
CallRandomKeySet ==
  \E key \in Keys, value \in ValuesOf(template) : Call("randomKeySet", key, value, FALSE)

CallGet == \E key \in Keys, force \in BOOLEAN : Call("get", key, Undefined, force)

CallDelete == \E key \in Keys : Call("delete", key, Undefined, FALSE)

\* delete(key) with a key that has the form of the other store's full key.
CallDeleteOther == \E key \in OtherKeys : Call("delete", key, Undefined, FALSE)

\* with(key, callback): get(key) without force.
CallWith == \E key \in Keys, callback \in Callbacks : Call("with", key, callback, FALSE)

(***************************************************************************)
(* The steps of the methods past the gate.                                 *)
(***************************************************************************)
\* set, after the await: serialize, stringify, hand the write to the client
\* without awaiting it, return the key.
SetRun(o) ==
  /\ alive
  /\ ops[o].pc = "ready" /\ ops[o].kind \in SetKinds
  /\ LET serialized == Serialize(template, ops[o].value) IN
     IF IsThrown(serialized)
     THEN /\ ops' = [ops EXCEPT ![o] = [@ EXCEPT !.pc = "done", !.result = serialized]]
          /\ queue' = queue
          /\ hist' = hist
     ELSE /\ queue' = Append(queue, SetCommand(options, ops[o].key,
                                               JsonStringify(serialized), ops[o].value))
          /\ ops' = [ops EXCEPT ![o] = [@ EXCEPT !.pc = "done", !.result = Str(ops[o].key)]]
          /\ hist' = [hist EXCEPT ![ops[o].key] = [@ EXCEPT !.written = ops[o].value]]
  /\ UNCHANGED <<template, options, isReady, alive, db, now, timers>>

\* get, after the await: issue the read and await its reply.
GetIssue(o) ==
  /\ alive
  /\ ops[o].pc = "ready" /\ ops[o].kind \in GetKinds
  /\ queue' = Append(queue, GetCommand(options, ops[o].key, o))
  /\ ops' = [ops EXCEPT ![o] = [@ EXCEPT !.pc = "awaitGet"]]
  /\ UNCHANGED <<template, options, isReady, alive, db, now, timers, hist>>

\* delete, after the await: issue the removal; its reply is the result.
DeleteIssue(o) ==
  /\ alive
  /\ ops[o].pc = "ready" /\ ops[o].kind = "delete"
  /\ queue' = Append(queue, DeleteCommand(options, ops[o].key, o))
  /\ ops' = [ops EXCEPT ![o] = [@ EXCEPT !.pc = "awaitDel"]]
  /\ UNCHANGED <<template, options, isReady, alive, db, now, timers, hist>>

\* get, once the reply is in: the missing-record return, the readOnce call
\* of delete (not awaited; it runs up to its own gate), then the parse.
\* with goes on to the callback in the same turn.
GetResume(o) ==
  /\ alive
  /\ ops[o].pc = "gotReply"
  /\ LET op == ops[o]
         payload == GetOutcome(template, op.raw, op.force)
         calls == GetCallsDelete(options, op.raw)
         cb == op.kind = "with" /\ WithCallsCallback(payload)
         result == IF op.kind = "get" \/ IsThrown(payload) THEN payload
                   ELSE IF cb THEN CallCallback(op.value, payload) ELSE Null
         done == [op EXCEPT !.pc = "done", !.payload = payload, !.result = result,
                            !.spawned = calls, !.cbCalls = IF cb THEN 1 ELSE 0]
         child == GateEntry(NewOp("delete", op.key, Undefined, FALSE, TRUE), isReady)
         id == Len(ops) + 1
     IN /\ ops' = IF calls THEN Append([ops EXCEPT ![o] = done], child)
                  ELSE [ops EXCEPT ![o] = done]
        /\ timers' = IF calls /\ child.pc = "poll" THEN Append(timers, id) ELSE timers
  /\ UNCHANGED <<template, options, isReady, alive, db, now, queue, hist>>

(***************************************************************************)
(* The environment: the store, the clock, the connection, the timers.      *)
(***************************************************************************)
\* The store executes the oldest command in flight and the client settles
\* the promise of the call that issued it.
RedisExec ==
  /\ Pending = {}
  /\ queue # <<>>
  /\ LET c == Head(queue) IN
     /\ queue' = Tail(queue)
     /\ db' = RedisApply(db, c, now)
     /\ ops' = CASE c.cmd = "GET" ->
                      [ops EXCEPT ![c.op] = [@ EXCEPT !.pc = "gotReply",
                                                      !.raw = RedisGet(db, c.key, now),
                                                      !.at = now,
                                                      !.ent = db[c.key]]]
                 [] c.cmd = "DEL" ->
                      [ops EXCEPT ![c.op] = [@ EXCEPT !.pc = "done",
                                                      !.result = Num(RedisDelCount(db, c.key, now))]]
                 [] OTHER -> ops
     /\ hist' = IF c.cmd = "DEL" /\ ~SetInFlight(ops[c.op].key)
                THEN [hist EXCEPT ![ops[c.op].key] =
                        IF ops[c.op].child THEN [@ EXCEPT !.consumed = TRUE]
                        ELSE [@ EXCEPT !.deleted = TRUE]]
                ELSE hist
  /\ UNCHANGED <<template, options, isReady, alive, now, timers>>

\* A second passes.
Tick ==
  /\ now < MaxTime
  /\ now' = now + 1
  /\ UNCHANGED <<template, options, isReady, alive, db, queue, ops, timers, hist>>

\* The plugin's connect() completes: the client is ready from now on.  Each
\* operation that is polling notes its place among the timers due (due, a
\* history field).
Connect ==
  /\ alive
  /\ Pending = {}
  /\ ~isReady
  /\ isReady' = TRUE
  /\ ops' = [o \in OpIds |->
              IF ops[o].pc = "poll"
              THEN [ops[o] EXCEPT !.due = CHOOSE i \in 1..Len(timers) : timers[i] = o]
              ELSE ops[o]]
  /\ UNCHANGED <<template, options, alive, db, now, queue, timers, hist>>

\* Which of the running interval timers fires next: all have the same
\* interval, so the one that was armed (or re-armed) longest ago, the head of
\* the list.  DueIndexNewest is a scheduler that runs the most recently armed
\* timer first.
DueIndexNewest(ts) == Len(ts)
DueIndex(ts) == 1

\* The timer that is due fires; a timer that is not cleared goes to the end
\* of the list.  The exception the callback throws
\* past the bound is uncaught: it ends the process unless the host has an
\* uncaughtException handler.
FireTimer ==
  /\ alive
  /\ Pending = {}
  /\ timers # <<>>
  /\ LET i == DueIndex(timers)
         o == timers[i]
         rest == SubSeq(timers, 1, i - 1) \o SubSeq(timers, i + 1, Len(timers))
         op == PollStep(ops[o], isReady)
     IN /\ ops' = [ops EXCEPT ![o] = op]
        /\ timers' = IF op.pc = "poll" THEN Append(rest, o) ELSE rest
        /\ alive' \in IF op.pc = "stuck" THEN BOOLEAN ELSE {alive}
  /\ UNCHANGED <<template, options, isReady, db, now, queue, hist>>

Next ==
  \/ CallSet
  \/ CallRandomKeySet
  \/ CallGet
  \/ CallDelete
  \/ CallWith
  \/ \E o \in OpIds : SetRun(o)
  \/ \E o \in OpIds : GetIssue(o)
  \/ \E o \in OpIds : DeleteIssue(o)
  \/ \E o \in OpIds : GetResume(o)
  \/ RedisExec
  \/ Tick

Spec == Init /\ [][Next]_vars

NextGate ==
  \/ CallSet
  \/ CallRandomKeySet
  \/ CallGet
  \/ CallDelete
  \/ CallWith
  \/ \E o \in OpIds : SetRun(o)
  \/ \E o \in OpIds : GetIssue(o)
  \/ \E o \in OpIds : DeleteIssue(o)
  \/ \E o \in OpIds : GetResume(o)
  \/ RedisExec
  \/ Connect
  \/ FireTimer

SpecGate == InitGate /\ [][NextGate]_vars

NextForeign ==
  \/ CallSet
  \/ CallRandomKeySet
  \/ CallGet
  \/ CallDelete
  \/ CallWith
  \/ \E o \in OpIds : SetRun(o)
  \/ \E o \in OpIds : GetIssue(o)
  \/ \E o \in OpIds : DeleteIssue(o)
  \/ \E o \in OpIds : GetResume(o)
  \/ RedisExec

SpecForeign == InitForeign /\ [][NextForeign]_vars

NextIsolation ==
  \/ CallSet
  \/ CallRandomKeySet
  \/ CallGet
  \/ CallDelete
  \/ CallDeleteOther
  \/ CallWith
  \/ \E o \in OpIds : SetRun(o)
  \/ \E o \in OpIds : GetIssue(o)
  \/ \E o \in OpIds : DeleteIssue(o)
  \/ \E o \in OpIds : GetResume(o)
  \/ RedisExec

SpecIsolation == InitIsolation /\ [][NextIsolation]_vars

(***************************************************************************)
(* Claims.                                                                 *)
(***************************************************************************)
Done(o) == ops[o].pc = "done"

\* C1: under readOnce a record is retrievable exactly once: a get(k) called
\* after an earlier get's deletion has completed, with no set on k since,
\* returns null.
C1_ReadOnceExactlyOnce ==
  \A o \in OpIds :
    (/\ options.readOnce /\ ops[o].kind = "get" /\ ~ops[o].force /\ Done(o)
     /\ ops[o].seen.consumed)
    => ops[o].result = Null

\* C2: once delete(k) has completed, with no set on k since, the record at
\* the full key is gone: a following get(k) returns null.
C2_DeleteRemovesRecord ==
  \A o \in OpIds :
    (/\ ops[o].kind = "get" /\ ~ops[o].force /\ Done(o)
     /\ ops[o].seen.deleted)
    => ops[o].result = Null

Range(seq) == {seq[i] : i \in 1..Len(seq)}

\* C3: an operation whose readiness poll has exceeded its bound has failed:
\* its caller has been handed the readiness-timeout error.
C3_TimeoutReachesCaller ==
  \A o \in OpIds :
    ops[o].attempt > MaxAttempts
    => Done(o) /\ ops[o].result = Thrown("RedisInitializationTimeout")

\* C4: no store command is issued while the connection is not ready: every
\* step that adds a command to the client's queue is taken with the
\* connection ready.
C4_CommandsOnlyWhenReady ==
  [][Len(queue') > Len(queue) => isReady]_vars

\* C4 witness: get, having waited at the gate, has called delete under
\* readOnce, and that delete's command is in flight.
C4_Witness ==
  \E i \in 1..Len(queue) :
    /\ queue[i].cmd = "DEL"
    /\ ops[queue[i].op].child
    /\ \E o \in OpIds : ops[o].kind \in GetKinds /\ ops[o].waited /\ ops[o].spawned

\* C5: the gate lets an operation through when readiness is reached in time.
\* An operation called on a ready connection starts no poll; a poll that is
\* among the first MaxAttempts of its operation and finds the connection
\* ready resolves the gate and clears its timer; a poll that stays scheduled
\* has made at most MaxAttempts attempts, and the firing after that one
\* checks nothing.
C5_GateResolvesInTime ==
  [][\A o \in DOMAIN ops' :
       /\ (o \notin DOMAIN ops /\ isReady)
          => (ops'[o].pc = "ready" /\ o \notin Range(timers'))
       /\ (o \in DOMAIN ops /\ ops[o].pc = "poll"
           /\ [ops'[o] EXCEPT !.due = ops[o].due] # ops[o])
          => /\ (isReady /\ ops[o].attempt < MaxAttempts)
                => (ops'[o].pc = "ready" /\ o \notin Range(timers'))
             /\ ops'[o].pc = "poll"
                => (~isReady /\ ops'[o].attempt <= MaxAttempts /\ o \in Range(timers'))
             /\ ops[o].attempt >= MaxAttempts => ops'[o].pc = "stuck"
             /\ ops'[o].pc \in {"poll", "ready", "stuck"}]_vars

\* C5 witness: a set that waited at the gate has gone on to issue its write.
C5_Witness ==
  \E o \in OpIds :
    /\ ops[o].kind = "set" /\ ops[o].waited /\ Done(o)
    /\ ops[o].result = Str(ops[o].key)
    /\ db[FullKey(options.namespace, ops[o].key)].p

\* C6: round trip: on a store without readOnce or expiry, set(k, v) of a
\* conforming value succeeds and a get(k) that reads the record it wrote
\* yields a value equal to v.
C6_RoundTrip ==
  (~options.readOnce /\ ~options.hasTtl) =>
    \A o \in OpIds :
      /\ (ops[o].kind \in SetKinds /\ Done(o)) => ~IsThrown(ops[o].result)
      /\ (ops[o].kind = "get" /\ Done(o) /\ ops[o].raw.p) => ops[o].result = ops[o].ent.orig

\* C7: get on an absent key throws not-found under force and returns null
\* otherwise, and the step issues no command, calls no delete (readOnce or
\* not) and leaves the store as it is.
C7_AbsentKey ==
  [][\A o \in OpIds :
       (ops[o].pc = "gotReply" /\ ~ops[o].raw.p /\ ops'[o].pc = "done")
       => /\ ops'[o].payload = IF ops[o].force THEN Thrown("KeyNotFound") ELSE Null
          /\ ops'[o].result = ops'[o].payload
          /\ ~ops'[o].spawned /\ ops'[o].cbCalls = 0
          /\ queue' = queue /\ db' = db /\ Len(ops') = Len(ops)]_vars

\* C7 witness: on a readOnce store both kinds of get have found the key
\* absent.
C7_Witness ==
  /\ options.readOnce
  /\ \E o \in OpIds : /\ ops[o].kind = "get" /\ ops[o].force /\ Done(o) /\ ~ops[o].raw.p
                      /\ ops[o].result = Thrown("KeyNotFound")
  /\ \E o \in OpIds : /\ ops[o].kind = "get" /\ ~ops[o].force /\ Done(o) /\ ~ops[o].raw.p
                      /\ ops[o].result = Null
  /\ queue = <<>>

\* C8: get(k, true) never resolves to null.
C8_ForceNeverNull ==
  \A o \in OpIds :
    (ops[o].kind = "get" /\ ops[o].force /\ Done(o)) => ops[o].result # Null

\* The value a wire array stands for under a schema: positional decoding in
\* which a nested object field is decoded with that field's own schema.
RECURSIVE DecodedValue(_, _)
DecodedValue(schema, parsed) ==
  IF ~IsObjectSchema(schema) THEN parsed
  ELSE IF parsed.k # "array" THEN Undefined
  ELSE Obj(schema.f, [i \in 1..Len(schema.f) |->
                        IF IsObjectSchema(schema.a[i])
                        THEN DecodedValue(schema.a[i], GetIndex(parsed, i - 1))
                        ELSE GetIndex(parsed, i - 1)])

\* C9: silent miss: a get without force on a record whose text is a JSON
\* array standing for a value that does not satisfy the schema returns null,
\* and with on such a record returns null without calling the callback.
C9_SilentMiss ==
  \A o \in OpIds :
    (/\ ops[o].kind \in GetKinds /\ ~ops[o].force /\ Done(o) /\ ops[o].raw.p
     /\ JsonParse(ops[o].raw.text).k = "array"
     /\ ~Valid(template, DecodedValue(template, JsonParse(ops[o].raw.text))))
    => (ops[o].payload = Null /\ ops[o].result = Null /\ ops[o].cbCalls = 0)

C11_NamespaceIsolation ==
  [][\A k \in OtherKeys : RedisGet(db', k, now') = RedisGet(db, k, now)]_vars

\* C12: with(key, callback) performs one get without force; the callback is
\* invoked exactly once, with the value get returned, if and only if that
\* value is not null, and with returns what the callback returns or throws
\* what it throws; on null, with returns null and the callback is not invoked.
C12_WithCallback ==
  \A o \in OpIds : ops[o].kind = "with" =>
    /\ ~ops[o].force
    /\ Cardinality({i \in 1..Len(queue) : queue[i].cmd = "GET" /\ queue[i].op = o})
         = IF ops[o].pc = "awaitGet" THEN 1 ELSE 0
    /\ ops[o].cbCalls \in {0, 1}
    /\ ~Done(o) => ops[o].cbCalls = 0
    /\ Done(o) =>
         /\ ops[o].payload = GetOutcome(template, ops[o].raw, FALSE)
         /\ ops[o].cbCalls = 1 <=> (~IsThrown(ops[o].payload) /\ ops[o].payload # Null)
         /\ ops[o].cbCalls = 1 => ops[o].result = CallCallback(ops[o].value, ops[o].payload)
         /\ ops[o].payload = Null => ops[o].result = Null

\* Two calls of with on a record with a ttl: before the expiry the callback is
\* invoked and its exception reaches the caller, after it with returns null.
C12_Witness ==
  \E o1, o2 \in OpIds :
    /\ ops[o1].kind = "with" /\ Done(o1) /\ ops[o1].cbCalls = 1
    /\ ops[o1].value = CallbackThrows /\ ops[o1].result = Thrown("CallbackError")
    /\ ops[o2].kind = "with" /\ Done(o2) /\ ops[o2].cbCalls = 0
    /\ ops[o2].payload = Null /\ ops[o2].result = Null

\* C13: a get, with or without force, that reads a text which parses to
\* anything other than an array fails with the error of the array test: it
\* returns neither null nor a value, and with invokes no callback.
C13_MalformedPayload ==
  \A o \in OpIds :
    (/\ ops[o].kind \in GetKinds /\ Done(o) /\ ops[o].raw.p
     /\ ~IsThrown(JsonParse(ops[o].raw.text))
     /\ JsonParse(ops[o].raw.text).k # "array")
    => /\ ops[o].payload = Thrown("InputMustBeJsonArray")
       /\ ops[o].result = ops[o].payload
       /\ ops[o].cbCalls = 0

\* A get with force and a get without have both read a record whose text is
\* a JSON object, and both have failed.
C13_Witness ==
  \E o1, o2 \in OpIds :
    /\ ops[o1].kind = "get" /\ ops[o1].force /\ Done(o1)
    /\ ops[o2].kind = "get" /\ ~ops[o2].force /\ Done(o2)
    /\ \A o \in {o1, o2} : /\ ops[o].raw.p /\ JsonParse(ops[o].raw.text).k = "object"
                           /\ IsThrown(ops[o].result)

\* The encoding of a value under a schema as the specification describes it:
\* one element per declared field, in declaration order, a field of an object
\* schema encoded under that schema, any other value as it is.
RECURSIVE PositionalEncoding(_, _)
PositionalEncoding(schema, value) ==
  IF IsObjectSchema(schema) /\ value.k = "object"
  THEN Arr([i \in 1..Len(schema.f) |->
              PositionalEncoding(schema.a[i], GetProp(value, schema.f[i]))])
  ELSE value

\* C15: the text a set of an object-schema store writes is the positional
\* encoding of the value: nested object fields under their own schema's
\* field order, every other field value unchanged.
C15_Encoding ==
  \A i \in 1..Len(queue) :
    (queue[i].cmd \in {"SET", "SETEX"} /\ IsObjectSchema(template))
    => queue[i].text = JsonStringify(PositionalEncoding(template, queue[i].orig))

\* C16: read-your-writes.  set(k, v) returns k, and a get(k) called once
\* set(k, v) has resolved, with no other operation on k called in between and
\* no expiry before the read, returns v.
C16_ReadYourWrites ==
  \A o \in OpIds :
    /\ (ops[o].kind = "set" /\ Done(o)) => ops[o].result = Str(ops[o].key)
    /\ (/\ ops[o].kind = "get" /\ Done(o) /\ ops[o].seen.written # Undefined
        /\ ~(options.hasTtl /\ ops[o].ent.p /\ ops[o].at >= ops[o].ent.exp))
       => ops[o].result = ops[o].seen.written

\* C17: under readOnce a get calls delete, and so issues the delete command,
\* only when it goes on to return a decoded, valid value: not when it ends in
\* null or in an error.
C17_DeleteOnlyOnSuccess ==
  \A o \in OpIds :
    (ops[o].kind \in GetKinds /\ Done(o) /\ ops[o].spawned)
    => (~IsThrown(ops[o].payload) /\ ops[o].payload # Null)

\* C18: the readOnce race.  On a readOnce store, when one of two gets of a
\* key has read the record and no delete has completed (and nothing writes
\* the key or lets it expire), the other get, once it has read, has read the
\* same record, and both return what that record decodes to.
C18_ReadOnceRace ==
  \A o1, o2 \in OpIds :
    (/\ o1 # o2 /\ options.readOnce /\ ~options.hasTtl
     /\ ops[o1].kind = "get" /\ ops[o2].kind = "get" /\ ops[o1].key = ops[o2].key
     /\ ops[o1].pc \in {"gotReply", "done"} /\ ops[o2].pc \in {"gotReply", "done"}
     /\ ops[o1].raw.p
     /\ \A c \in OpIds : ops[c].kind \notin SetKinds
     /\ \A c \in OpIds : ops[c].kind = "delete" => ~Done(c))
    => /\ ops[o2].raw = ops[o1].raw
       /\ Done(o2) => ops[o2].result = GetOutcome(template, ops[o1].raw, ops[o2].force)

\* The race has happened: two gets of a readOnce record have both returned
\* its value, each has called delete, and no delete has completed.
C18_Witness ==
  /\ options.readOnce
  /\ \E o1, o2 \in OpIds :
       /\ o1 # o2
       /\ \A o \in {o1, o2} : /\ ops[o].kind = "get" /\ Done(o) /\ ops[o].spawned
                              /\ ops[o].ent.p /\ ops[o].result = ops[o].ent.orig
  /\ \A c \in OpIds : ops[c].kind = "delete" => ~Done(c)

\* Two sets of one key, o1 called before o2, that both waited at the gate
\* have completed, their writes have reached the store, and no other set of
\* the key was called.
BothSetsWritten(o1, o2) ==
  /\ o1 < o2 /\ ops[o1].key = ops[o2].key
  /\ \A o \in {o1, o2} : ops[o].kind \in SetKinds /\ ops[o].waited /\ Done(o)
  /\ \A o \in OpIds \ {o1, o2} : ops[o].kind \in SetKinds => ops[o].key # ops[o1].key
  /\ \A i \in 1..Len(queue) : queue[i].cmd \notin {"SET", "SETEX"}

====
